---- MODULE Spec2Model ----
(***************************************************************************)
(* Model of src/src/generate_financial_data.py: FinancialDataGenerator.    *)
(* One process runs generate_all_data(num_users) against a PostgreSQL      *)
(* database that outlives the process.  Every call that leaves the         *)
(* process (psycopg2 connect/cursor/execute/commit/close, the generation   *)
(* client) is one step that either succeeds or raises.                     *)
(***************************************************************************)
EXTENDS Naturals, Sequences, FiniteSets

\* ---------------------------------------------------------------- bounds
\* The SERIAL sequences only grow; a run starts, and a generation call
\* answers, only with what keeps the identifiers within these.
MaxUserId    == 2
MaxAccountId == 2
MaxTxnId     == 4

\* ------------------------------------------------------- generated values
Profiles     == {"Jane Doe"}
AccountTypes == {"checking"}
TxnTypes     == {"debit", "credit"}

\* the text of a response: JSON encoding `value`, or text that is no JSON
Json(v)      == [valid |-> TRUE, value |-> v]
NotJSON(v)   == [valid |-> FALSE, value |-> v]

SeqsUpTo(S, n) == UNION {[1..m -> S] : m \in 0..n}

\* what json.loads accepts from the three generation calls
ProfileResponses == {Json(v) : v \in Profiles} \cup {NotJSON("")}
AccountResponses ==
    {Json(v) : v \in SeqsUpTo(AccountTypes, MaxAccountId)} \cup {NotJSON(<<>>)}
TxnResponses ==
    {Json(v) : v \in SeqsUpTo(TxnTypes, MaxTxnId)} \cup {NotJSON(<<>>)}

\* ---------------------------------------------------------------- state
VARIABLES
    pc,               \* position of the process ("idle": no process runs)
    db,               \* committed database: tables and rows
    tx,               \* uncommitted work of the open connection
    seqs,             \* SERIAL sequences (never rolled back)
    conn, cur,        \* the current call's connection / cursor
    openConns,        \* connections of this process that are open
    exc,              \* exception in flight, or NoExc
    num_users, i,     \* generate_all_data: argument and loop index
    user_profile, accounts, gen, all_transactions,
    user_id, k, account_id, account_ids,
    runStart,         \* db when the current run began
    iterStart,        \* db when the current user's iteration began
    sawNotJSON,       \* a generation call of the current user returned non-JSON
    hist,             \* aggregates this run committed, in order
    log               \* completed steps of the run, in order

vars == <<pc, db, tx, seqs, conn, cur, openConns, exc, num_users, i,
          user_profile, accounts, gen, all_transactions, user_id, k,
          account_id, account_ids, runStart, iterStart, sawNotJSON, hist, log>>

dbVars   == <<db, tx, seqs, conn, cur, openConns>>
genVars  == <<user_profile, accounts, gen, all_transactions>>
insVars  == <<user_id, k, account_id, account_ids>>
runVars  == <<num_users, i, runStart, iterStart, sawNotJSON, hist>>

AllTables == {"users", "accounts", "transactions"}
EmptyDb   == [tables |-> {}, users |-> {}, accounts |-> {}, transactions |-> {}]
NoExc     == [at |-> "none", kind |-> "none", first |-> "none"]
NoProfile == "none"

\* rows the open connection sees: committed plus its own uncommitted work
Visible(d, t) ==
    [tables       |-> d.tables \cup t.tables,
     users        |-> d.users \cup t.users,
     accounts     |-> d.accounts \cup t.accounts,
     transactions |-> d.transactions \cup t.transactions]

RECURSIVE Flatten(_)
Flatten(ss) == IF ss = <<>> THEN <<>> ELSE Head(ss) \o Flatten(Tail(ss))

Event(ev, u, a) == [ev |-> ev, u |-> u, a |-> a]

Init ==
    /\ pc = "idle"
    /\ db = EmptyDb
    /\ tx = EmptyDb
    /\ seqs = [user |-> 1, account |-> 1, txn |-> 1]
    /\ conn = "none" /\ cur = "none"
    /\ openConns = 0
    /\ exc = NoExc
    /\ num_users = 0 /\ i = 0
    /\ user_profile = NoProfile /\ accounts = <<>> /\ gen = <<>>
    /\ all_transactions = <<>>
    /\ user_id = 0 /\ k = 0 /\ account_id = 0 /\ account_ids = <<>>
    /\ runStart = EmptyDb
    /\ iterStart = EmptyDb
    /\ sawNotJSON = FALSE
    /\ hist = <<>>
    /\ log = <<>>

\* ------------------------------------------------------ database engine
\* an exception raised at step `at`; raised while another is in flight
\* (in a finally block) it replaces it and keeps it as its context
Raised(at, kind) ==
    [at |-> at, kind |-> kind, first |-> IF exc = NoExc THEN at ELSE exc.first]

\* variant: CREATE TABLE without IF NOT EXISTS fails on an existing table
CreateTable(vis, name, refs) ==
    IF name \in vis.tables THEN [err |-> TRUE, add |-> {}]
    ELSE IF refs \subseteq vis.tables THEN [err |-> FALSE, add |-> {name}]
    ELSE [err |-> TRUE, add |-> {}]

\* CREATE TABLE IF NOT EXISTS name (... REFERENCES refs ...): the tables it adds,
\* or an error when a referenced table does not exist
CreateTableIfNotExists(vis, name, refs) ==
    IF name \in vis.tables THEN [err |-> FALSE, add |-> {}]
    ELSE IF refs \subseteq vis.tables THEN [err |-> FALSE, add |-> {name}]
    ELSE [err |-> TRUE, add |-> {}]

UserRow(uid, profile) == [user_id |-> uid, profile |-> profile]

AccountRow(aid, uid, account) ==
    [account_id |-> aid, user_id |-> uid, account |-> account]

\* accounts.user_id REFERENCES users(user_id)
UserIdExists(vis, uid) == \E u \in vis.users : u.user_id = uid

\* transactions.account_id REFERENCES accounts(account_id)
AccountIdExists(vis, aid) == \E a \in vis.accounts : a.account_id = aid

\* INSERT INTO users (...) VALUES (...) RETURNING user_id, with uid the next
\* value of the sequence: the row, or an error
InsertUser(vis, uid, profile) ==
    [err  |-> "users" \notin vis.tables,
     rows |-> {UserRow(uid, profile)}]

\* variant: user_id not taken from RETURNING, on a table without REFERENCES
InsertAccount_Unchecked(vis, aid, uid, account) ==
    [err  |-> "accounts" \notin vis.tables,
     rows |-> {AccountRow(aid, uid + 1, account)}]

\* INSERT INTO accounts (user_id, ...) VALUES (...) RETURNING account_id
InsertAccount(vis, aid, uid, account) ==
    [err  |-> "accounts" \notin vis.tables \/ ~UserIdExists(vis, uid),
     rows |-> {AccountRow(aid, uid, account)}]

\* the argslist of execute_values: one tuple per transaction, in order
TxnRows(first, aid, txns) ==
    {[transaction_id |-> first + t - 1, account_id |-> aid, txn |-> txns[t]] :
        t \in 1..Len(txns)}

\* execute_values(cur, "INSERT INTO transactions (account_id, ...) VALUES %s", ...)
InsertTransactions(vis, first, aid, txns) ==
    LET rows == TxnRows(first, aid, txns) IN
    [err  |-> "transactions" \notin vis.tables
                 \/ \E r \in rows : ~AccountIdExists(vis, r.account_id),
     rows |-> rows]

\* conn.commit(): the connection's work becomes the committed state
Commit(d, t) == Visible(d, t)

\* variant: the finally block commits before it closes
OnClose_Commits(d, t) == Commit(d, t)

\* conn.close() in the finally block: the committed state once the
\* connection is gone; work that was not committed is discarded
OnClose(d, t) == d

\* --------------------------------------------------------------- the run
\* __main__ / generate_all_data(num_users): a new process on the same database
StartRun ==
    /\ pc = "idle"
    /\ \E n \in 0..MaxUserId :
         /\ seqs.user + n <= MaxUserId + 1
         /\ num_users' = n
    /\ pc' = "ct_connect"
    /\ i' = 0
    /\ runStart' = db
    /\ iterStart' = db
    /\ sawNotJSON' = FALSE
    /\ hist' = <<>>
    /\ log' = <<>>
    /\ exc' = NoExc
    /\ UNCHANGED <<dbVars, genVars, insVars>>

\* variant: range(num_users + 1)
LoopHead_OffByOne(idx, n) == IF idx <= n THEN "gen_profile" ELSE "done"

\* for i in range(num_users)
LoopHead(idx, n) == IF idx < n THEN "gen_profile" ELSE "done"

\* variant: the loop body catches the exception and tries the user again
Unhandled_Retry(idx, n) == IF idx < n THEN "gen_profile" ELSE "error"

\* an exception that leaves create_tables, a generation call or insert_data
\* while user idx + 1 of n is processed: nothing in generate_all_data or
\* __main__ catches it
Unhandled(idx, n) == "error"

\* conn = psycopg2.connect(**self.db_params), before the try
Connect(at, nextPc) ==
    /\ pc = at
    /\ \E fail \in BOOLEAN :
         IF fail
         THEN /\ exc' = Raised(at, "env")
              /\ pc' = Unhandled(i, num_users)
              /\ UNCHANGED <<conn, openConns, tx>>
         ELSE /\ conn' = "open"
              /\ openConns' = openConns + 1
              /\ tx' = EmptyDb
              /\ pc' = nextPc
              /\ UNCHANGED exc
    /\ cur' = "none"
    /\ UNCHANGED <<db, seqs, genVars, insVars, runVars, log>>

\* cur = conn.cursor(), before the try
Cursor(at, nextPc) ==
    /\ pc = at
    /\ \E fail \in BOOLEAN :
         IF fail
         THEN /\ exc' = Raised(at, "env")
              /\ pc' = Unhandled(i, num_users)
              /\ UNCHANGED cur
         ELSE /\ cur' = "open"
              /\ pc' = nextPc
              /\ UNCHANGED exc
    /\ UNCHANGED <<db, tx, seqs, conn, openConns, genVars, insVars, runVars, log>>

\* finally: cur.close() -- when it raises, conn.close() is not reached
CurClose(at, nextPc) ==
    /\ pc = at
    /\ \E fail \in BOOLEAN :
         IF fail
         THEN /\ exc' = Raised(at, "env")
              /\ pc' = Unhandled(i, num_users)
              /\ UNCHANGED cur
         ELSE /\ cur' = "closed"
              /\ pc' = nextPc
              /\ UNCHANGED exc
    /\ UNCHANGED <<db, tx, seqs, conn, openConns, genVars, insVars, runVars, log>>

\* finally: conn.close(); then the exception in flight, if any, leaves the
\* function
ConnClose(at, retPc) ==
    /\ pc = at
    /\ \E fail \in BOOLEAN :
         IF fail
         THEN /\ exc' = Raised(at, "env")
              /\ pc' = Unhandled(i, num_users)
              /\ UNCHANGED <<db, conn, openConns, tx>>
         ELSE /\ conn' = "closed"
              /\ openConns' = openConns - 1
              /\ db' = OnClose(db, tx)
              /\ tx' = EmptyDb
              /\ pc' = IF exc = NoExc THEN retPc ELSE Unhandled(i, num_users)
              /\ UNCHANGED exc
    /\ UNCHANGED <<seqs, cur, genVars, insVars>>

\* ---------------------------------------------------------- create_tables
CtConnect == Connect("ct_connect", "ct_cursor")

CtCursor == Cursor("ct_cursor", "ct_users")

\* one cur.execute("CREATE TABLE IF NOT EXISTS ...") of the try body
CtExecute(at, name, refs, nextPc) ==
    /\ pc = at
    /\ \E fail \in BOOLEAN :
         LET r == CreateTableIfNotExists(Visible(db, tx), name, refs) IN
         IF fail \/ r.err
         THEN /\ exc' = Raised(at, IF fail THEN "env" ELSE "sql")
              /\ pc' = "ct_cur_close"
              /\ UNCHANGED tx
         ELSE /\ tx' = [tx EXCEPT !.tables = @ \cup r.add]
              /\ pc' = nextPc
              /\ UNCHANGED exc
    /\ UNCHANGED <<db, seqs, conn, cur, openConns, genVars, insVars, runVars, log>>

CtCreateUsers == CtExecute("ct_users", "users", {}, "ct_accounts")

CtCreateAccounts == CtExecute("ct_accounts", "accounts", {"users"}, "ct_transactions")

CtCreateTransactions ==
    CtExecute("ct_transactions", "transactions", {"accounts"}, "ct_commit")

\* conn.commit(); when it raises (the connection was lost) the server may
\* or may not have committed
CtCommit ==
    /\ pc = "ct_commit"
    /\ \E fail \in BOOLEAN :
         IF fail
         THEN /\ exc' = Raised("ct_commit", "env")
              /\ \E applied \in BOOLEAN :
                    IF applied
                    THEN db' = Commit(db, tx) /\ tx' = EmptyDb
                    ELSE UNCHANGED <<db, tx>>
         ELSE /\ db' = Commit(db, tx)
              /\ tx' = EmptyDb
              /\ UNCHANGED exc
    /\ pc' = "ct_cur_close"
    /\ UNCHANGED <<seqs, conn, cur, openConns, genVars, insVars, runVars, log>>

CtCurClose == CurClose("ct_cur_close", "ct_conn_close")

\* create_tables returns; the loop of generate_all_data begins
CtConnClose ==
    /\ ConnClose("ct_conn_close", LoopHead(0, num_users))
    /\ log' = IF exc' = NoExc THEN Append(log, Event("create_tables", 0, 0)) ELSE log
    /\ iterStart' = db'
    /\ UNCHANGED <<num_users, i, runStart, sawNotJSON, hist>>

\* ------------------------------------------------------------- generation
\* variant: a parse failure is swallowed and an empty value returned
JsonLoads_Lenient(resp) == [ok |-> TRUE, value |-> resp.value]

\* json.loads(response.content)
JsonLoads(resp) == [ok |-> resp.valid, value |-> resp.value]

\* self.client.messages.create(...) then json.loads: the parsed value, or
\* the kind of error raised (service failure, parse failure)
GenerationCall(fail, resp) ==
    IF fail THEN [ok |-> FALSE, kind |-> "api", value |-> resp.value]
    ELSE LET r == JsonLoads(resp) IN [ok |-> r.ok, kind |-> "json", value |-> r.value]

\* the exception of a generation call leaves generate_all_data
GenRaise(at, kind) ==
    /\ exc' = Raised(at, kind)
    /\ pc' = Unhandled(i, num_users)
    /\ UNCHANGED <<genVars, log>>

\* user_profile = self.generate_user_profile(i)
GenProfile ==
    /\ pc = "gen_profile"
    /\ \E fail \in BOOLEAN, resp \in ProfileResponses :
         LET r == GenerationCall(fail, resp) IN
         /\ sawNotJSON' = (sawNotJSON \/ (~fail /\ ~resp.valid))
         /\ IF r.ok
            THEN /\ user_profile' = r.value
                 /\ pc' = "gen_accounts"
                 /\ log' = Append(log, Event("gen_profile", i + 1, 0))
                 /\ UNCHANGED <<exc, accounts, gen, all_transactions>>
            ELSE GenRaise("gen_profile", r.kind)
    /\ UNCHANGED <<dbVars, insVars, num_users, i, runStart, iterStart, hist>>

\* variant: insert_data called inside the loop over the accounts
AfterGenTxns_Early(done, total) == "ins_connect"

\* for account in accounts: ... ; self.insert_data(...)
AfterGenTxns(done, total) == IF done < total THEN "gen_txns" ELSE "ins_connect"

\* accounts = self.generate_accounts(user_profile); all_transactions = []
GenAccounts ==
    /\ pc = "gen_accounts"
    /\ \E fail \in BOOLEAN, resp \in AccountResponses :
         LET r == GenerationCall(fail, resp) IN
         /\ seqs.account + Len(resp.value) <= MaxAccountId + 1
         /\ sawNotJSON' = (sawNotJSON \/ (~fail /\ ~resp.valid))
         /\ IF r.ok
            THEN /\ accounts' = r.value
                 /\ all_transactions' = <<>>
                 /\ gen' = <<>>
                 /\ pc' = AfterGenTxns(0, Len(r.value))
                 /\ log' = Append(log, Event("gen_accounts", i + 1, 0))
                 /\ UNCHANGED <<exc, user_profile>>
            ELSE GenRaise("gen_accounts", r.kind)
    /\ UNCHANGED <<dbVars, insVars, num_users, i, runStart, iterStart, hist>>

\* transactions = self.generate_transactions(account, user_profile)
\* all_transactions.extend(transactions)
GenTxns ==
    /\ pc = "gen_txns"
    /\ \E fail \in BOOLEAN, resp \in TxnResponses :
         LET r == GenerationCall(fail, resp) IN
         /\ seqs.txn + Len(accounts) * (Len(all_transactions) + Len(resp.value))
                <= MaxTxnId + 1
         /\ sawNotJSON' = (sawNotJSON \/ (~fail /\ ~resp.valid))
         /\ IF r.ok
            THEN /\ gen' = Append(gen, r.value)
                 /\ all_transactions' = all_transactions \o r.value
                 /\ pc' = AfterGenTxns(Len(gen) + 1, Len(accounts))
                 /\ log' = Append(log, Event("gen_txns", i + 1, Len(gen) + 1))
                 /\ UNCHANGED <<exc, user_profile, accounts>>
            ELSE GenRaise("gen_txns", r.kind)
    /\ UNCHANGED <<dbVars, insVars, num_users, i, runStart, iterStart, hist>>

\* ------------------------------------------------------------ insert_data
InsConnect == Connect("ins_connect", "ins_cursor")

InsCursor == Cursor("ins_cursor", "ins_user")

\* for account in accounts_data: ... ; conn.commit()
AfterAccount(done, total) == IF done < total THEN "ins_account" ELSE "ins_commit"

\* cur.execute("INSERT INTO users ..."); user_id = cur.fetchone()[0]
InsUser ==
    /\ pc = "ins_user"
    /\ \E fail \in BOOLEAN :
         LET uid == seqs.user
             r   == InsertUser(Visible(db, tx), uid, user_profile)
         IN  IF fail \/ r.err
             THEN /\ exc' = Raised("ins_user", IF fail THEN "env" ELSE "sql")
                  /\ pc' = "ins_cur_close"
                  /\ UNCHANGED <<tx, seqs, insVars, log>>
             ELSE /\ tx' = [tx EXCEPT !.users = @ \cup r.rows]
                  /\ seqs' = [seqs EXCEPT !.user = @ + 1]
                  /\ user_id' = uid
                  /\ k' = 0
                  /\ account_ids' = <<>>
                  /\ pc' = AfterAccount(0, Len(accounts))
                  /\ log' = Append(log, Event("ins_user", i + 1, 0))
                  /\ UNCHANGED <<exc, account_id>>
    /\ UNCHANGED <<db, conn, cur, openConns, genVars, runVars>>

\* cur.execute("INSERT INTO accounts ..."); account_id = cur.fetchone()[0]
InsAccount ==
    /\ pc = "ins_account"
    /\ \E fail \in BOOLEAN :
         LET aid == seqs.account
             r   == InsertAccount(Visible(db, tx), aid, user_id, accounts[k + 1])
         IN  IF fail \/ r.err
             THEN /\ exc' = Raised("ins_account", IF fail THEN "env" ELSE "sql")
                  /\ pc' = "ins_cur_close"
                  /\ seqs' = IF fail THEN seqs ELSE [seqs EXCEPT !.account = @ + 1]
                  /\ UNCHANGED <<tx, insVars, log>>
             ELSE /\ tx' = [tx EXCEPT !.accounts = @ \cup r.rows]
                  /\ seqs' = [seqs EXCEPT !.account = @ + 1]
                  /\ account_id' = aid
                  /\ account_ids' = Append(account_ids, aid)
                  /\ pc' = "ins_txns"
                  /\ log' = Append(log, Event("ins_account", i + 1, k + 1))
                  /\ UNCHANGED <<exc, user_id, k>>
    /\ UNCHANGED <<db, conn, cur, openConns, genVars, runVars>>

\* variant: only the transactions generated for the idx-th account
TransactionsWritten_PerAccount(transactions_data, perAccount, idx) == perAccount[idx]

\* [(account_id, txn[...], ...) for txn in transactions_data]: the transactions
\* written under the idx-th account
TransactionsWritten(transactions_data, perAccount, idx) == transactions_data

\* execute_values(...): one statement for the whole list, none for an empty
\* list
InsTxns ==
    /\ pc = "ins_txns"
    /\ \E fail \in BOOLEAN :
         LET txns == TransactionsWritten(all_transactions, gen, k + 1)
             r    == InsertTransactions(Visible(db, tx), seqs.txn, account_id, txns)
         IN  IF txns # <<>> /\ (fail \/ r.err)
             THEN /\ exc' = Raised("ins_txns", IF fail THEN "env" ELSE "sql")
                  /\ pc' = "ins_cur_close"
                  /\ seqs' = IF fail THEN seqs
                             ELSE [seqs EXCEPT !.txn = @ + Len(txns)]
                  /\ UNCHANGED <<tx, k, log>>
             ELSE /\ ~fail
                  /\ tx' = [tx EXCEPT !.transactions = @ \cup r.rows]
                  /\ seqs' = [seqs EXCEPT !.txn = @ + Len(txns)]
                  /\ k' = k + 1
                  /\ pc' = AfterAccount(k + 1, Len(accounts))
                  /\ log' = Append(log, Event("ins_txns", i + 1, k + 1))
                  /\ UNCHANGED exc
    /\ UNCHANGED <<db, conn, cur, openConns, genVars, runVars,
                   user_id, account_id, account_ids>>

\* the aggregate of the user being inserted, with the identifiers captured
Aggregate ==
    [user_id |-> user_id, profile |-> user_profile, accounts |-> accounts,
     account_ids |-> account_ids, gen |-> gen]

\* conn.commit(); when it raises (the connection was lost) the server may
\* or may not have committed
InsCommit ==
    /\ pc = "ins_commit"
    /\ \E fail \in BOOLEAN :
         IF fail
         THEN /\ exc' = Raised("ins_commit", "env")
              /\ UNCHANGED log
              /\ \E applied \in BOOLEAN :
                    IF applied
                    THEN /\ db' = Commit(db, tx)
                         /\ tx' = EmptyDb
                         /\ hist' = Append(hist, Aggregate)
                    ELSE UNCHANGED <<db, tx, hist>>
         ELSE /\ db' = Commit(db, tx)
              /\ tx' = EmptyDb
              /\ hist' = Append(hist, Aggregate)
              /\ log' = Append(log, Event("commit", i + 1, 0))
              /\ UNCHANGED exc
    /\ pc' = "ins_cur_close"
    /\ UNCHANGED <<seqs, conn, cur, openConns, genVars, insVars,
                   num_users, i, runStart, iterStart, sawNotJSON>>

InsCurClose == CurClose("ins_cur_close", "ins_conn_close")

\* insert_data returns; print("Completed user"); the next iteration begins
InsConnClose ==
    /\ ConnClose("ins_conn_close", LoopHead(i + 1, num_users))
    /\ IF exc' = NoExc
       THEN /\ i' = i + 1
            /\ iterStart' = db'
            /\ log' = Append(log, Event("completed", i + 1, 0))
       ELSE UNCHANGED <<i, iterStart, log>>
    /\ UNCHANGED <<num_users, runStart, sawNotJSON, hist>>

\* the process ends (normally, or with the unhandled exception); the
\* operating system closes what it left open
Exit ==
    /\ pc \in {"done", "error"}
    /\ pc' = "idle"
    /\ conn' = "none" /\ cur' = "none"
    /\ openConns' = 0
    /\ tx' = EmptyDb
    /\ exc' = NoExc
    /\ num_users' = 0 /\ i' = 0
    /\ user_profile' = NoProfile /\ accounts' = <<>> /\ gen' = <<>>
    /\ all_transactions' = <<>>
    /\ user_id' = 0 /\ k' = 0 /\ account_id' = 0 /\ account_ids' = <<>>
    /\ runStart' = db /\ iterStart' = db
    /\ sawNotJSON' = FALSE
    /\ hist' = <<>>
    /\ log' = <<>>
    /\ UNCHANGED <<db, seqs>>

Next ==
    \/ StartRun
    \/ CtConnect \/ CtCursor
    \/ CtCreateUsers \/ CtCreateAccounts \/ CtCreateTransactions
    \/ CtCommit \/ CtCurClose \/ CtConnClose
    \/ GenProfile \/ GenAccounts \/ GenTxns
    \/ InsConnect \/ InsCursor \/ InsUser \/ InsAccount \/ InsTxns
    \/ InsCommit \/ InsCurClose \/ InsConnClose
    \/ Exit

Spec == Init /\ [][Next]_vars

\* ============================================================ properties
CtPcs  == {"ct_connect", "ct_cursor", "ct_users", "ct_accounts",
           "ct_transactions", "ct_commit", "ct_cur_close", "ct_conn_close"}
GenPcs == {"gen_profile", "gen_accounts", "gen_txns"}
InsPcs == {"ins_connect", "ins_cursor", "ins_user", "ins_account", "ins_txns",
           "ins_commit", "ins_cur_close", "ins_conn_close"}

\* steps of insert_data before conn.commit(), and after it
InsBeforeCommit == {"ins_connect", "ins_cursor", "ins_user", "ins_account",
                    "ins_txns"}
InsAfterCommit == {"ins_cur_close", "ins_conn_close"}

\* the process is inside a call whose steps are S, or the call has just raised
InCall(S) == pc \in S \/ (pc = "error" /\ exc.at \in S)

Range(f) == {f[x] : x \in DOMAIN f}

Occurs(e) == \E p \in DOMAIN log : log[p] = e

\* the payloads of the rows R, by ascending transaction_id
RECURSIVE PayloadsById(_)
PayloadsById(R) ==
    IF R = {} THEN <<>>
    ELSE LET r == CHOOSE r \in R : \A q \in R : r.transaction_id <= q.transaction_id
         IN  <<r.txn>> \o PayloadsById(R \ {r})

TxnsUnder(d, aid) == PayloadsById({r \in d.transactions : r.account_id = aid})

\* C1: every account of a committed aggregate carries exactly the
\* transactions that were generated for that account, in order.
C1_PerAccountTransactions ==
    \A idx \in DOMAIN hist :
        LET h == hist[idx] IN
        \A kk \in DOMAIN h.accounts :
            TxnsUnder(db, h.account_ids[kk]) = h.gen[kk]

\* C10: every account of a committed aggregate carries the whole flattened
\* list of the user's transactions: T rows under each of the m accounts, m*T
\* rows in all.
C10_CrossAccountWrite ==
    \A idx \in DOMAIN hist :
        LET h   == hist[idx]
            all == Flatten(h.gen)
        IN  /\ \A kk \in DOMAIN h.accounts :
                   TxnsUnder(db, h.account_ids[kk]) = all
            /\ Cardinality({r \in db.transactions :
                               r.account_id \in Range(h.account_ids)})
                   = Len(h.accounts) * Len(all)

C10_Witness ==
    \E idx \in DOMAIN hist :
        /\ Len(hist[idx].accounts) = 2
        /\ Len(hist[idx].gen[1]) = 1
        /\ Len(hist[idx].gen[2]) = 1
        /\ hist[idx].gen[1] # hist[idx].gen[2]

\* C2: until insert_data reaches conn.commit(), and after any of its steps
\* before the commit has raised, the committed database is what it was when
\* the call began; the call changes the committed database at most once, by
\* a commit that follows the user insert and every account and transaction
\* insert, and a call that meets no error has committed exactly once.
C2_AtomicPerUser ==
    InCall(InsPcs) =>
        LET u  == i + 1
            cs == {p \in DOMAIN log : log[p] = Event("commit", u, 0)}
        IN
        /\ exc.first \in InsBeforeCommit => db = iterStart
        /\ (exc = NoExc /\ pc \in InsBeforeCommit \cup {"ins_commit"}) => db = iterStart
        /\ (exc = NoExc /\ pc \in InsAfterCommit) => Cardinality(cs) = 1
        /\ Cardinality(cs) <= 1
        /\ Len(hist) \in {i, i + 1}
        /\ db # iterStart =>
              /\ Len(hist) = i + 1
              /\ Occurs(Event("ins_user", u, 0))
              /\ \A kk \in DOMAIN accounts :
                    /\ Occurs(Event("ins_account", u, kk))
                    /\ Occurs(Event("ins_txns", u, kk))
              /\ db.users \ iterStart.users = {UserRow(user_id, user_profile)}
              /\ Cardinality(db.accounts \ iterStart.accounts) = Len(accounts)
              /\ iterStart.users \subseteq db.users
              /\ iterStart.accounts \subseteq db.accounts
              /\ iterStart.transactions \subseteq db.transactions

C2_Witness ==
    /\ pc = "error"
    /\ exc.first = "ins_txns"
    /\ i = 1
    /\ iterStart.transactions # {}
    /\ db = iterStart

\* C3: every committed account row references a committed user row and
\* every committed transaction row references a committed account row.
C3_ReferentialIntegrity ==
    /\ \A a \in db.accounts : \E u \in db.users : u.user_id = a.user_id
    /\ \A t \in db.transactions : \E a \in db.accounts : a.account_id = t.account_id

C3_Witness ==
    /\ pc = "error"
    /\ exc.first \in {"ins_account", "ins_txns"}
    /\ db.transactions # {}
    /\ seqs.account > Cardinality(db.accounts) + 1

\* the rows of aggregate h are committed
AggregateCommitted(h) ==
    /\ UserRow(h.user_id, h.profile) \in db.users
    /\ \A kk \in DOMAIN h.accounts :
          /\ AccountRow(h.account_ids[kk], h.user_id, h.accounts[kk]) \in db.accounts
          /\ \A t \in DOMAIN h.gen[kk] :
                \E r \in db.transactions :
                    r.account_id = h.account_ids[kk] /\ r.txn = h.gen[kk][t]

\* generate_all_data has failed while user i + 1 was processed
FailedOnUser == pc = "error" /\ exc.at \in GenPcs \cup InsPcs

\* an exception outside a finally block has ended the run
FailureEndsRun ==
    (exc # NoExc /\ pc \notin {"ct_cur_close", "ct_conn_close",
                               "ins_cur_close", "ins_conn_close"})
        => /\ pc = "error"
           /\ ~ENABLED (Next /\ pc' # "idle")

EarlierUsersCommitted ==
    /\ Len(hist) >= i
    /\ \A idx \in 1..i : AggregateCommitted(hist[idx])

NoLaterUserTouched == \A p \in DOMAIN log : log[p].u <= i + 1

\* C4 as claimed: a failure while user k is processed leaves users 1..k-1
\* committed and no row of user k, touches no later user and ends the run.
C4_FailureAbortsRun ==
    /\ FailureEndsRun
    /\ FailedOnUser =>
          /\ EarlierUsersCommitted
          /\ db = iterStart
          /\ NoLaterUserTouched

\* C4 amended: the same, except that no row of user k is committed only
\* when the failure comes before conn.commit(); a failure in conn.commit()
\* leaves the aggregate of user k committed whole or not at all, and a
\* failure after it (closing the cursor or the connection) leaves it
\* committed.
C4_FailureAbortsRunUnlessCommitted ==
    /\ FailureEndsRun
    /\ FailedOnUser =>
          /\ EarlierUsersCommitted
          /\ NoLaterUserTouched
          /\ Len(hist) \in {i, i + 1}
          /\ exc.first \in GenPcs \cup InsBeforeCommit => Len(hist) = i
          /\ exc.first \in InsAfterCommit => Len(hist) = i + 1
          /\ IF Len(hist) = i
             THEN db = iterStart
             ELSE /\ AggregateCommitted(hist[i + 1])
                  /\ db # iterStart

C4_Witness ==
    /\ FailedOnUser
    /\ num_users = 2
    /\ i = 1
    /\ exc.at = "gen_txns"
    /\ hist[1].gen # <<>>

\* C5: once a generation call of the current user has returned text that is
\* not JSON, the run has failed with no row of that user written, committed
\* or not; insert_data begins only when every generation call has returned.
C5_NoPartialRows ==
    /\ sawNotJSON =>
          /\ pc = "error"
          /\ exc.kind = "json"
          /\ db = iterStart
          /\ tx = EmptyDb
          /\ \A p \in DOMAIN log :
                log[p].u = i + 1 => log[p].ev \in {"gen_profile", "gen_accounts", "gen_txns"}
    /\ pc \in InsPcs =>
          /\ ~sawNotJSON
          /\ Len(gen) = Len(accounts)
          /\ Occurs(Event("gen_profile", i + 1, 0))
          /\ Occurs(Event("gen_accounts", i + 1, 0))
          /\ \A kk \in DOMAIN accounts : Occurs(Event("gen_txns", i + 1, kk))

C5_Witness ==
    /\ sawNotJSON
    /\ exc.at = "gen_txns"
    /\ Len(gen) = 1
    /\ Len(accounts) = 2
    /\ db.users # {}

\* C6: outside create_tables and insert_data no connection and no cursor of
\* the process is open, and never more than one connection is open.
C6_ResourcesReleased ==
    /\ openConns <= 1
    /\ pc \notin CtPcs \cup InsPcs =>
          /\ openConns = 0
          /\ conn # "open"
          /\ cur # "open"

\* C7: create_tables on a database that has the three tables raises no error
\* of its own and leaves the tables and every row as they were.
C7_CreateTablesIdempotent ==
    runStart.tables = AllTables =>
        /\ InCall(CtPcs) =>
              /\ exc.kind # "sql"
              /\ db = runStart
              /\ Visible(db, tx).tables = AllTables
        /\ (pc \in GenPcs /\ i = 0) => /\ db = runStart
                                       /\ iterStart = runStart
        /\ pc # "idle" => /\ db.tables = AllTables
                          /\ runStart.users \subseteq db.users
                          /\ runStart.accounts \subseteq db.accounts
                          /\ runStart.transactions \subseteq db.transactions

C7_Witness ==
    /\ runStart.tables = AllTables
    /\ runStart.transactions # {}
    /\ log = <<Event("create_tables", 0, 0)>>
    /\ db = runStart

\* C8: a run that ends without an error has added one users row per user
\* and, for each user, one accounts row per generated account under the
\* captured user_id; a user with one account has exactly that account's
\* generated transactions under the captured account_id.
C8_RowCounts ==
    pc = "done" =>
        /\ Cardinality(db.users) = Cardinality(runStart.users) + num_users
        /\ Len(hist) = num_users
        /\ \A idx \in DOMAIN hist :
              LET h == hist[idx] IN
              /\ UserRow(h.user_id, h.profile) \in db.users \ runStart.users
              /\ {a \in db.accounts : a.user_id = h.user_id}
                    = {AccountRow(h.account_ids[kk], h.user_id, h.accounts[kk]) :
                          kk \in DOMAIN h.accounts}
              /\ Cardinality({a \in db.accounts : a.user_id = h.user_id})
                    = Len(h.accounts)
              /\ Len(h.accounts) = 1 =>
                    /\ TxnsUnder(db, h.account_ids[1]) = h.gen[1]
                    /\ Cardinality({r \in db.transactions :
                                       r.account_id = h.account_ids[1]})
                          = Len(h.gen[1])

C8_Witness ==
    /\ pc = "done"
    /\ num_users = 1
    /\ Len(hist[1].accounts) = 1
    /\ Len(hist[1].gen[1]) = 1
    /\ Cardinality(db.users) = 1
    /\ Cardinality(db.accounts) = 1
    /\ Cardinality(db.transactions) = 1

\* the steps of user u with m accounts, in the order of the code
GenOrder(u, m) ==
    <<Event("gen_profile", u, 0), Event("gen_accounts", u, 0)>>
        \o [kk \in 1..m |-> Event("gen_txns", u, kk)]

InsOrder(u, m) ==
    <<Event("ins_user", u, 0)>>
        \o [p \in 1..(2 * m) |->
               IF p % 2 = 1 THEN Event("ins_account", u, (p + 1) \div 2)
               ELSE Event("ins_txns", u, p \div 2)]
        \o <<Event("commit", u, 0), Event("completed", u, 0)>>

UserOrder(u, m) == GenOrder(u, m) \o InsOrder(u, m)

IsPrefix(a, b) == Len(a) <= Len(b) /\ a = SubSeq(b, 1, Len(a))

RECURSIVE CompletedOrder(_)
CompletedOrder(n) ==
    IF n = 0 THEN <<>>
    ELSE CompletedOrder(n - 1) \o UserOrder(n, Len(hist[n].accounts))

\* C9: the completed steps of a run are create_tables, then for each user in
\* turn profile, accounts, one transactions generation per account, the user
\* insert, per account its insert and then its transactions, the commit; no
\* step of a user precedes the completion of the user before.
C9_Ordering ==
    /\ pc \in GenPcs \cup InsPcs \cup {"done"} => log # <<>>
    /\ log # <<>> =>
          LET done == <<Event("create_tables", 0, 0)>> \o CompletedOrder(i)
              rest == SubSeq(log, Len(done) + 1, Len(log))
          IN  /\ Len(hist) >= i
              /\ IsPrefix(done, log)
              /\ IF Len(rest) <= 1
                 THEN IsPrefix(rest, <<Event("gen_profile", i + 1, 0)>>)
                 ELSE IsPrefix(rest, UserOrder(i + 1, Len(accounts)))
              /\ i = num_users => rest = <<>>

C9_Witness ==
    /\ pc = "done"
    /\ num_users = 2
    /\ Len(hist[1].accounts) = 2
    /\ hist[1].gen[1] # <<>>
    /\ Len(hist[2].accounts) = 0
    /\ Len(log) = 17
====
